---- MODULE Spec2Model ----
(***************************************************************************)
(* Model of tiktok.py: the interactive menu (main_menu), the username      *)
(* queue, the listing resolver (get_tiktok_videos) and the batch download  *)
(* loop (download_user_videos), with the ad hoc downloads of options 5/6.  *)
(*                                                                         *)
(* Strings are sequences of one-character strings.  A few fixed pieces of  *)
(* text that the code only ever concatenates or tests as a prefix are kept *)
(* as one element ("chunk").  The character U+00B2 (superscript two) is    *)
(* written "sup2".                                                         *)
(***************************************************************************)
EXTENDS Integers, Sequences, FiniteSets, TLC

\* ------------------------------------------------------------------ bounds
MaxQueue == 2        \* longest username queue explored
MaxListing == 3      \* most entries the collaborator returns during a session
MaxEntries == 2      \* most entries in the listing-resolver specification

\* ------------------------------------------------------------ str helpers
Whitespace == {" "}

DecimalDigits == {"0", "1", "2", "3", "4", "5", "6", "7", "8", "9"}

\* characters for which str.isdigit() is true although int() rejects them
NonDecimalDigits == {"sup2"}

DigitSeq == <<"0", "1", "2", "3", "4", "5", "6", "7", "8", "9">>

DigitVal(c) == (CHOOSE i \in 1..10 : DigitSeq[i] = c) - 1

RECURSIVE LStrip(_, _)
LStrip(s, chars) ==
    IF s # <<>> /\ Head(s) \in chars THEN LStrip(Tail(s), chars) ELSE s

RECURSIVE RStrip(_, _)
RStrip(s, chars) ==
    IF s # <<>> /\ s[Len(s)] \in chars
    THEN RStrip(SubSeq(s, 1, Len(s) - 1), chars)
    ELSE s

Strip(s) == RStrip(LStrip(s, Whitespace), Whitespace)

\* str.isdigit(): non-empty and every character is a digit character
IsDigit(s) ==
    /\ s # <<>>
    /\ \A i \in 1..Len(s) : s[i] \in DecimalDigits \cup NonDecimalDigits

\* the digits of int(s): surrounding blanks and one sign are dropped
IntBody(s) ==
    LET t == Strip(s)
    IN  IF t # <<>> /\ Head(t) \in {"-", "+"} THEN Tail(t) ELSE t

\* int(s) returns (TRUE) or raises ValueError (FALSE)
IntParses(s) ==
    /\ IntBody(s) # <<>>
    /\ \A i \in 1..Len(IntBody(s)) : IntBody(s)[i] \in DecimalDigits

RECURSIVE DecimalValue(_)
DecimalValue(s) ==
    IF s = <<>> THEN 0
    ELSE 10 * DecimalValue(SubSeq(s, 1, Len(s) - 1)) + DigitVal(s[Len(s)])

IntValue(s) ==
    LET t == Strip(s)
    IN  IF t # <<>> /\ Head(t) = "-"
        THEN 0 - DecimalValue(IntBody(s))
        ELSE DecimalValue(IntBody(s))

\* str(i) for 0 <= i <= 99
Str(i) == IF i < 10 THEN <<DigitSeq[i + 1]>>
          ELSE <<DigitSeq[(i \div 10) + 1], DigitSeq[(i % 10) + 1]>>

Max(a, b) == IF a >= b THEN a ELSE b

Min(a, b) == IF a <= b THEN a ELSE b

\* ------------------------------------------------- get_tiktok_videos
ProfilePrefix == <<"https://www.tiktok.com/@">>

VideoInfix == <<"/video/">>

HttpChunks == {"https://www.tiktok.com/@", "https://vm.tiktok.com/"}

\* str.startswith("http")
StartsWithHttp(s) == s # <<>> /\ Head(s) \in HttpChunks

\* f"https://www.tiktok.com/@{username}/video/{vid}"
VideoUrl(username, vid) == ProfilePrefix \o username \o VideoInfix \o vid

\* e.get(key); a missing key, None and "" are all falsy and all written <<>>
Get(e, key) == e[key]

\* e.get("id") or e.get("url") or e.get("webpage_url")
VidId(e) ==
    IF Get(e, "id") # <<>> THEN Get(e, "id")
    ELSE IF Get(e, "url") # <<>> THEN Get(e, "url")
    ELSE Get(e, "webpage_url")

\* the loop body of lines 107-111 for one entry: the urls it appends
EntryUrls(username, e) ==
    IF ~e.dict THEN <<>>
    ELSE IF VidId(e.fields) = <<>> THEN <<>>
    ELSE IF StartsWithHttp(VidId(e.fields)) THEN <<VidId(e.fields)>>
    ELSE <<VideoUrl(username, VidId(e.fields))>>

RECURSIVE CollectUrls(_, _)
CollectUrls(username, entries) ==
    IF entries = <<>> THEN <<>>
    ELSE EntryUrls(username, Head(entries)) \o CollectUrls(username, Tail(entries))

\* info is what ydl.extract_info did: raised, returned None, or returned a dict
get_tiktok_videos(username0, info) ==
    LET username == LStrip(username0, {"@"})
    IN  IF info.kind = "raise" THEN <<>>
        ELSE IF info.kind = "none" THEN <<>>
        ELSE IF info.entries = <<>>
        THEN IF info.id # <<>> THEN <<VideoUrl(username, info.id)>> ELSE <<>>
        ELSE CollectUrls(username, info.entries)

\* ------------------------------------------------------ operator inputs
\* what the operator may type at "Choose an option: "
ChoiceInputs ==
    {<<"0">>, <<"1">>, <<"2">>, <<"3">>, <<"4">>, <<"5">>, <<"6">>, <<"7">>,
     <<" ", "1">>, <<"8">>, <<"x">>, <<>>}

\* what the operator may type at "Enter TikTok username (no @): "
HandleInputs ==
    {<<>>, <<" ">>, <<"@">>, <<"a">>, <<"@", "a">>, <<" ", "@", "@", "b", " ">>, <<"b">>}

\* what the operator may type at a numeric prompt, for a collection of size top
NumberInputs(top) ==
    {Str(i) : i \in 0..(top + 1)}
        \cup {<<>>, <<"x">>, <<"-", "1">>, <<"sup2">>, <<" ", "1", " ">>}

\* what the operator may paste at the link prompts of options 5 and 6
LinkInputs == {<<>>, <<" ">>, <<"https://vm.tiktok.com/", "1">>, <<" ", "x">>}

\* what the operator may type at "Enter 1 or 2: "
ProjectInputs == {<<"1">>, <<"2">>, <<"3">>, <<>>}

\* ------------------------------------------------ collaborator results
NoFields == [id |-> <<>>, url |-> <<>>, webpage_url |-> <<>>]

ShortUrl(i) == <<"https://vm.tiktok.com/", i>>

\* the profile's videos as the collaborator lists them during a session:
\* entry i carries a bare id when i is odd and an absolute url when i is even
ProfileEntry(i) ==
    IF i % 2 = 1
    THEN [dict |-> TRUE, fields |-> [NoFields EXCEPT !.id = Str(i)]]
    ELSE [dict |-> TRUE, fields |-> [NoFields EXCEPT !.url = ShortUrl(Str(i)[1])]]

\* every shape of entry the listing resolver distinguishes
AllEntries ==
    {[dict |-> FALSE, fields |-> NoFields]}
        \cup {[dict |-> TRUE, fields |-> [id |-> i, url |-> u, webpage_url |-> w]] :
                i \in {<<>>, <<"1">>},
                u \in {<<>>, <<"2">>, ShortUrl("2")},
                w \in {<<>>, ShortUrl("3")}}

SeqsUpTo(S, m) == UNION {[1..l -> S] : l \in 0..m}

FailedInfos ==
    {[kind |-> "raise", entries |-> <<>>, id |-> <<>>],
     [kind |-> "none", entries |-> <<>>, id |-> <<>>]}

\* everything ydl.extract_info may do, with at most m entries drawn from a set
InfosOver(entries, m) ==
    FailedInfos
        \cup {[kind |-> "dict", entries |-> es, id |-> i] :
                es \in SeqsUpTo(entries, m), i \in {<<>>, <<"7">>}}

\* everything ydl.extract_info may do during a session: it fails, or lists
\* the first l videos of the profile
SessionInfos ==
    FailedInfos
        \cup {[kind |-> "dict", entries |-> [j \in 1..l |-> ProfileEntry(j)], id |-> i] :
                l \in 0..MaxListing, i \in {<<>>, <<"7">>}}

NoInfo == [kind |-> "none", entries |-> <<>>, id |-> <<>>]

\* ------------------------------------------------------------------ state
VARIABLES
    pc,          \* where control is: "menu", "batch", "ask", "loop", "resolve",
                 \* or ended: "exited", "stopped", "crashed", "returned"
    caller,      \* "main_menu", or "direct" for a call of a function by itself
    usernames,   \* main_menu: the queue
    choice,      \* main_menu: the option last chosen (stripped)
    edits,       \* the add/remove operations just performed back to back (the
                 \* last two): what was typed and the queue before each
    batch,       \* option 3: list(usernames) being iterated
    bi,          \* option 3: position in batch
    processed,   \* the calls of download_user_videos that have returned
    count,       \* download_user_videos: {} for None, {c} for the argument c
    info,        \* get_tiktok_videos: what ydl.extract_info did
    urls,        \* download_user_videos: the listing
    raw,         \* download_user_videos: the answer to the count prompt
    n,           \* download_user_videos: the clamped count (0 before it is set)
    to_download, \* download_user_videos: urls[:n]
    k,           \* download loop: index of the next item
    attempted,   \* download loop: the urls handed to ydl.download, in order
    firstFail,   \* download loop: position of the first item that raised, or 0
    out          \* the lines printed by the last step

vars == <<pc, caller, usernames, choice, edits, batch, bi, processed, count,
          info, urls, raw, n, to_download, k, attempted, firstFail, out>>

\* no call of download_user_videos is in progress or remembered
CallIdle ==
    /\ urls' = <<>>
    /\ raw' = <<>>
    /\ n' = 0
    /\ to_download' = <<>>
    /\ k' = 0
    /\ attempted' = <<>>
    /\ firstFail' = 0

BatchIdle ==
    /\ batch' = <<>>
    /\ bi' = 0
    /\ processed' = <<>>
    /\ count' = {}
    /\ info' = NoInfo
    /\ CallIdle

Init ==
    /\ usernames = <<>>
    /\ choice = <<>>
    /\ edits = <<>>
    /\ processed = <<>>
    /\ info = NoInfo
    /\ urls = <<>>
    /\ raw = <<>>
    /\ n = 0
    /\ to_download = <<>>
    /\ k = 0
    /\ attempted = <<>>
    /\ firstFail = 0
    /\ out = <<>>
    /\ \/ /\ pc = "menu"
          /\ caller = "main_menu"
          /\ batch = <<>>
          /\ bi = 0
          /\ count = {}
       \/ /\ pc = "batch"
          /\ caller = "direct"
          /\ batch \in {<<u>> : u \in {<<"a">>, <<"@", "b">>}}
          /\ bi = 1
          /\ count \in {{}} \cup {{c} : c \in (0 - 1)..(MaxListing + 1)}

\* ------------------------------------------------------------- main_menu
\* the last two add/remove operations, e being the newest
Push(e) == IF Len(edits) < 2 THEN Append(edits, e) ELSE <<edits[2], e>>

\* a queue that grows at the front: usernames.insert(0, u)
AddHandleFront(q, u) == <<u>> \o q

\* usernames.append(u)
AddHandle(q, u) == Append(q, u)

\* input(...).strip().lstrip("@")
NormalizeHandle(typed) == LStrip(Strip(typed), {"@"})

\* idx.isdigit() and 1 <= int(idx) <= len(usernames), when int(idx) returns
RemoveAccepts(idx, q) ==
    IsDigit(idx) /\ IntParses(idx) /\ 1 <= IntValue(idx) /\ IntValue(idx) <= Len(q)

\* idx.isdigit() lets through text on which int(idx) raises ValueError
RemoveRaises(idx) == IsDigit(idx) /\ ~IntParses(idx)

\* usernames.pop(i - 1)
PopAt(q, i) == SubSeq(q, 1, i - 1) \o SubSeq(q, i + 1, Len(q))

Chosen(c, option) == pc = "menu" /\ Strip(c) = <<option>> /\ choice' = Strip(c)

Add(c, typed) ==
    /\ Chosen(c, "1")
    /\ LET u == NormalizeHandle(typed)
       IN  /\ u # <<>> => Len(usernames) < MaxQueue
           /\ usernames' = IF u # <<>> THEN AddHandle(usernames, u) ELSE usernames
           /\ out' = IF u # <<>> THEN <<"Added">> ELSE <<>>
           /\ edits' = Push([op |-> "1", arg |-> u, before |-> usernames])
    /\ BatchIdle
    /\ UNCHANGED <<pc, caller>>

Remove(c, typed) ==
    /\ Chosen(c, "2")
    /\ IF usernames = <<>>
       THEN /\ out' = <<"No usernames to remove.">>
            /\ edits' = <<>>
            /\ UNCHANGED <<pc, usernames>>
       ELSE LET idx == Strip(typed)
            IN  /\ edits' = Push([op |-> "2", arg |-> idx, before |-> usernames])
                /\ IF RemoveRaises(idx)
                   THEN /\ pc' = "crashed"
                        /\ out' = <<"listing", "ValueError">>
                        /\ UNCHANGED usernames
                   ELSE IF RemoveAccepts(idx, usernames)
                   THEN /\ usernames' = PopAt(usernames, IntValue(idx))
                        /\ out' = <<"listing", "Removed">>
                        /\ UNCHANGED pc
                   ELSE /\ out' = <<"listing">>
                        /\ UNCHANGED <<pc, usernames>>
    /\ BatchIdle
    /\ UNCHANGED caller

StartBatch(c) ==
    /\ Chosen(c, "3")
    /\ edits' = <<>>
    /\ IF usernames = <<>>
       THEN /\ out' = <<"Add at least one username first.">>
            /\ BatchIdle
            /\ UNCHANGED pc
       ELSE /\ batch' = usernames
            /\ bi' = 1
            /\ processed' = <<>>
            /\ count' = {}
            /\ info' = NoInfo
            /\ CallIdle
            /\ pc' = "batch"
            /\ out' = <<>>
    /\ UNCHANGED <<caller, usernames>>

Clear(c) ==
    /\ Chosen(c, "4")
    /\ usernames' = <<>>
    /\ edits' = <<>>
    /\ out' = <<"Cleared">>
    /\ BatchIdle
    /\ UNCHANGED <<pc, caller>>

\* what the calls of the fetch layer inside download_custom_link and
\* download_audio_only did
FetchResults ==
    [extract : {"raise", "none", "single", "entries"}, download : {"ok", "raise"}]

\* lines 48-57 and 78-87: everything the fetch layer raises, and the TypeError
\* of '"entries" in None', is caught by "except Exception"
AdHocOutcome(res) ==
    IF res.extract \in {"raise", "none"} THEN "Failed"
    ELSE IF res.download = "raise" THEN "Failed"
    ELSE "Saved"

CustomLink(c, typed, res) ==
    /\ Chosen(c, "5")
    /\ out' = IF Strip(typed) # <<>>
              THEN <<"Downloading video", AdHocOutcome(res)>>
              ELSE <<"Invalid link.">>
    /\ edits' = <<>>
    /\ BatchIdle
    /\ UNCHANGED <<pc, caller, usernames>>

AudioOnly(c, typed, res) ==
    /\ Chosen(c, "6")
    /\ out' = IF Strip(typed) # <<>>
              THEN <<"Downloading MP3", AdHocOutcome(res)>>
              ELSE <<"Invalid link.">>
    /\ edits' = <<>>
    /\ BatchIdle
    /\ UNCHANGED <<pc, caller, usernames>>

Explore(c, typed) ==
    /\ Chosen(c, "7")
    /\ out' = IF Strip(typed) \in {<<"1">>, <<"2">>}
              THEN <<"projects", "open">>
              ELSE <<"projects", "Invalid choice.">>
    /\ edits' = <<>>
    /\ BatchIdle
    /\ UNCHANGED <<pc, caller, usernames>>

Exit(c) ==
    /\ Chosen(c, "0")
    /\ pc' = "exited"
    /\ out' = <<"Exiting.">>
    /\ edits' = <<>>
    /\ BatchIdle
    /\ UNCHANGED <<caller, usernames>>

InvalidOption(c) ==
    /\ pc = "menu"
    /\ Strip(c) \notin {<<d>> : d \in {"0", "1", "2", "3", "4", "5", "6", "7"}}
    /\ choice' = Strip(c)
    /\ out' = <<"Invalid option.">>
    /\ edits' = <<>>
    /\ BatchIdle
    /\ UNCHANGED <<pc, caller, usernames>>

\* KeyboardInterrupt: no handler below "__main__" catches it; the frames of
\* the call in progress are unwound and the process exits
Interrupt ==
    /\ caller = "main_menu"
    /\ pc \in {"menu", "batch", "ask", "loop"}
    /\ pc' = "stopped"
    /\ out' = <<"Stopped by user.">>
    /\ edits' = <<>>
    /\ BatchIdle
    /\ UNCHANGED <<caller, usernames, choice>>

\* -------------------------------------------------- download_user_videos
\* a clamp without its floor: min(c, total)
ClampNoFloor(c, total) == Min(c, total)

\* max(1, min(c, total))
Clamp(c, total) == Max(1, Min(c, total))

\* a handler that falls back to one item: "except ValueError: n = 1"
CountFromAnswerOne(answer, total) ==
    IF answer = <<>> THEN total
    ELSE IF IntParses(answer) THEN Max(1, Min(IntValue(answer), total))
    ELSE 1

\* lines 127-132: the count for the (stripped) answer to the prompt
CountFromAnswer(answer, total) ==
    IF answer = <<>> THEN total
    ELSE IF IntParses(answer) THEN Clamp(IntValue(answer), total)
    ELSE total

\* the newest m instead of the first m: s[-m:]
SliceLast(s, m) ==
    IF m > 0 THEN SubSeq(s, Max(1, Len(s) - m + 1), Len(s)) ELSE s

\* s[:m]
SliceTo(s, m) ==
    IF m >= 0 THEN SubSeq(s, 1, Min(m, Len(s)))
    ELSE SubSeq(s, 1, Max(0, Len(s) + m))

\* a loop that gives up at the first failure: "except Exception: break"
NextItemAbort(i, outcome, total) == IF outcome = "raise" THEN total + 1 ELSE i + 1

\* the for loop of line 148 after ydl.download returned or raised:
\* "except Exception: continue" goes on to the next item
NextItem(i, outcome, total) == i + 1

\* a batch that stops at the first handle without videos
NextHandleStopOnEmpty(i, found, total) == IF found THEN i + 1 ELSE total + 1

\* the for loop of line 197 after download_user_videos returned
NextHandle(i, found, total) == i + 1

\* download_user_videos returns to its caller
Return ==
    /\ processed' = Append(processed,
                           [user |-> batch[bi], kind |-> info'.kind, found |-> urls' # <<>>])
    /\ bi' = NextHandle(bi, urls' # <<>>, Len(batch))
    /\ pc' = IF caller = "direct" THEN "returned"
             ELSE IF bi' > Len(batch) THEN "menu"
             ELSE "batch"

\* lines 117-136 up to the prompt: the listing is resolved; inf is what
\* ydl.extract_info did
GetListing(inf) ==
    /\ pc = "batch"
    /\ bi <= Len(batch)
    /\ info' = inf
    /\ urls' = get_tiktok_videos(LStrip(batch[bi], {"@"}), inf)
    /\ raw' = <<>>
    /\ attempted' = <<>>
    /\ firstFail' = 0
    /\ IF urls' = <<>>
       THEN /\ out' = IF inf.kind = "raise"
                      THEN <<"Failed to fetch", "No videos found.">>
                      ELSE <<"No videos found.">>
            /\ n' = 0
            /\ to_download' = <<>>
            /\ k' = 0
            /\ Return
       ELSE IF count = {}
       THEN /\ out' = <<"Found">>
            /\ n' = 0
            /\ to_download' = <<>>
            /\ k' = 0
            /\ pc' = "ask"
            /\ UNCHANGED <<bi, processed>>
       ELSE /\ out' = <<"Found", "Downloading">>
            /\ n' = Clamp(CHOOSE c \in count : TRUE, Len(urls'))
            /\ to_download' = SliceTo(urls', n')
            /\ k' = 1
            /\ pc' = "loop"
            /\ UNCHANGED <<bi, processed>>
    /\ UNCHANGED <<caller, usernames, choice, edits, batch, count>>

\* lines 128-136: the operator answers the count prompt
AskCount(typed) ==
    /\ pc = "ask"
    /\ raw' = Strip(typed)
    /\ n' = CountFromAnswer(raw', Len(urls))
    /\ to_download' = SliceTo(urls, n')
    /\ k' = 1
    /\ pc' = "loop"
    /\ out' = <<"Downloading">>
    /\ UNCHANGED <<caller, usernames, choice, edits, batch, bi, processed, count,
                   info, urls, attempted, firstFail>>

\* lines 148-152: one iteration; ydl.download returns or raises
DownloadItem(outcome) ==
    /\ pc = "loop"
    /\ k <= Len(to_download)
    /\ attempted' = Append(attempted, to_download[k])
    /\ firstFail' = IF firstFail = 0 /\ outcome = "raise" THEN k ELSE firstFail
    /\ k' = NextItem(k, outcome, Len(to_download))
    /\ out' = <<>>
    /\ UNCHANGED <<pc, caller, usernames, choice, edits, batch, bi, processed,
                   count, info, urls, raw, n, to_download>>

\* lines 153-155: the loop is exhausted
Finish ==
    /\ pc = "loop"
    /\ k > Len(to_download)
    /\ out' = <<"Done">>
    /\ UNCHANGED <<caller, usernames, choice, edits, batch, count, info, urls, raw,
                   n, to_download, k, attempted, firstFail>>
    /\ Return

Next ==
    \/ \E c \in ChoiceInputs, typed \in HandleInputs : Add(c, typed)
    \/ \E c \in ChoiceInputs, typed \in NumberInputs(Len(usernames)) : Remove(c, typed)
    \/ \E c \in ChoiceInputs : StartBatch(c)
    \/ \E c \in ChoiceInputs : Clear(c)
    \/ \E c \in ChoiceInputs, typed \in LinkInputs, res \in FetchResults :
          CustomLink(c, typed, res)
    \/ \E c \in ChoiceInputs, typed \in LinkInputs, res \in FetchResults :
          AudioOnly(c, typed, res)
    \/ \E c \in ChoiceInputs, typed \in ProjectInputs : Explore(c, typed)
    \/ \E c \in ChoiceInputs : Exit(c)
    \/ \E c \in ChoiceInputs : InvalidOption(c)
    \/ Interrupt
    \/ \E inf \in SessionInfos : GetListing(inf)
    \/ \E typed \in NumberInputs(Len(urls)) : AskCount(typed)
    \/ \E outcome \in {"ok", "raise"} : DownloadItem(outcome)
    \/ Finish

Spec == Init /\ [][Next]_vars

\* ------------------------------------- the listing resolver on its own
InitList ==
    /\ pc = "resolve"
    /\ caller = "direct"
    /\ usernames = <<>>
    /\ choice = <<>>
    /\ edits = <<>>
    /\ batch \in {<<u>> : u \in {<<"a">>, <<"@", "b">>}}
    /\ bi = 1
    /\ processed = <<>>
    /\ count = {}
    /\ info \in InfosOver(AllEntries, MaxEntries)
    /\ urls = <<>>
    /\ raw = <<>>
    /\ n = 0
    /\ to_download = <<>>
    /\ k = 0
    /\ attempted = <<>>
    /\ firstFail = 0
    /\ out = <<>>

\* urls = get_tiktok_videos(username)
Resolve ==
    /\ pc = "resolve"
    /\ urls' = get_tiktok_videos(batch[bi], info)
    /\ pc' = "returned"
    /\ out' = IF info.kind = "raise" THEN <<"Failed to fetch">> ELSE <<>>
    /\ UNCHANGED <<caller, usernames, choice, edits, batch, bi, processed, count,
                   info, raw, n, to_download, k, attempted, firstFail>>

NextList == Resolve

SpecList == InitList /\ [][NextList]_vars

\* ----------------------------------------------------------------- claims
Last(s) == s[Len(s)]

Users(p) == [i \in 1..Len(p) |-> p[i].user]

\* a call of download_user_videos that went through its loop has returned
LoopReturned ==
    /\ pc \in {"menu", "batch", "returned"}
    /\ processed # <<>>
    /\ Last(processed).found

\* C1: whenever download_user_videos selects items, from a count argument or
\* from an answer typed at the prompt, the number n of selected identifiers
\* satisfies 1 <= n <= L for the listing length L; and on an empty listing
\* the function neither prompts nor loops nor fetches anything.
C1_ClampedCountInRange ==
    /\ pc = "loop" => n >= 1 /\ n <= Len(urls) /\ Len(to_download) = n
    /\ pc \in {"ask", "loop"} => urls # <<>>
    /\ urls = <<>> => attempted = <<>> /\ to_download = <<>>

\* a count argument outside 1..L was clamped and the loop has fetched
C1_Witness ==
    /\ pc = "loop"
    /\ \E c \in count : c < 1 \/ c > Len(urls)
    /\ Len(urls) >= 2
    /\ attempted # <<>>

\* C2: the identifiers selected for download are the first n of the listing
\* in listing order, and when the loop is exhausted the fetches attempted are
\* exactly those, in that order.
C2_FirstCInOrder ==
    /\ pc = "loop" => to_download = SubSeq(urls, 1, n)
    /\ (pc = "loop" /\ k > Len(to_download)) \/ LoopReturned
          => /\ Len(attempted) = n
             /\ \A i \in 1..n : attempted[i] = urls[i]

\* a strict prefix of two or more identifiers was selected and fetched
C2_Witness ==
    /\ pc = "loop"
    /\ k > Len(to_download)
    /\ n >= 2
    /\ n < Len(urls)
    /\ attempted = SubSeq(urls, 1, n)

\* C3: in the download loop every selected identifier is attempted exactly
\* once and in order whatever subset of the fetches raises: the attempts so
\* far are the first k-1 selected identifiers, and once the call has returned
\* they are all of them.
C3_EveryItemAttemptedOnce ==
    /\ pc = "loop" => /\ k >= 1 /\ k <= Len(to_download) + 1
                      /\ attempted = SubSeq(to_download, 1, k - 1)
                      /\ firstFail < k
    /\ LoopReturned => attempted = to_download

\* the second of three items raised and the third was attempted all the same
C3_Witness ==
    /\ LoopReturned
    /\ Len(to_download) = 3
    /\ firstFail = 2
    /\ attempted = to_download

\* C4: option 1 with a handle that is non-empty after normalization followed
\* by option 2 with the 1-based index of the last element leaves the queue as
\* it was before the add.
C4_AddThenRemoveLast ==
    (/\ pc = "menu"
     /\ Len(edits) = 2
     /\ edits[1].op = "1" /\ edits[1].arg # <<>>
     /\ edits[2].op = "2" /\ edits[2].arg = Str(Len(edits[2].before)))
        => usernames = edits[1].before

\* a handle already queued was added again and removed by the last index
C4_Witness ==
    /\ pc = "menu"
    /\ Len(edits) = 2
    /\ edits[1].op = "1" /\ edits[1].before = <<edits[1].arg>>
    /\ edits[2].op = "2" /\ edits[2].arg = <<"2">>
    /\ edits[2].before = <<edits[1].arg, edits[1].arg>>
    /\ usernames = edits[1].before

\* the text is no number, or is a number outside 1..Len(q)
BadIndex(idx, q) ==
    \/ ~IntParses(idx)
    \/ IntValue(idx) < 1
    \/ IntValue(idx) > Len(q)

\* C5: option 2 on a non-empty queue with an index that is out of bounds or
\* non-numeric leaves the queue unchanged and the session at the menu prompt.
C5_BadIndexLeavesQueue ==
    (/\ edits # <<>>
     /\ Last(edits).op = "2"
     /\ BadIndex(Last(edits).arg, Last(edits).before))
        => usernames = Last(edits).before /\ pc = "menu"

Printed(line) == \E i \in 1..Len(out) : out[i] = line

\* C6: option 2 on a non-empty queue reports an out-of-range condition for an
\* out-of-bounds index and reports the removal as cancelled for a non-numeric
\* index.
C6_BadIndexReported ==
    (/\ edits # <<>>
     /\ Last(edits).op = "2"
     /\ BadIndex(Last(edits).arg, Last(edits).before))
        => IF IntParses(Last(edits).arg)
           THEN Printed("out of range")
           ELSE Printed("cancelled")

\* the count the claim describes for a numeric answer v and listing length l
InRange(v, l, m) ==
    /\ m >= 1 /\ m <= l
    /\ (v >= 1 /\ v <= l) => m = v
    /\ v < 1 => m = 1
    /\ v > l => m = l

\* C7 as claimed: with no count argument an empty answer selects the whole
\* listing, a numeric answer is clamped into 1..L, and no download starts
\* until an empty or numeric answer has been given.
C7_NonNumericReprompted ==
    (pc = "loop" /\ count = {})
        => /\ raw = <<>> \/ IntParses(raw)
           /\ raw = <<>> => n = Len(urls)
           /\ IntParses(raw) => InRange(IntValue(raw), Len(urls), n)

\* C7 as amended: with no count argument an empty answer selects the whole
\* listing, a numeric answer is clamped into 1..L, and a non-numeric answer
\* is not rejected: it selects the whole listing like an empty one and the
\* download starts without a second prompt.
C7_CountFromAnswer ==
    (pc = "loop" /\ count = {})
        => /\ raw = <<>> => n = Len(urls)
           /\ IntParses(raw) => InRange(IntValue(raw), Len(urls), n)
           /\ (raw # <<>> /\ ~IntParses(raw)) => n = Len(urls)

\* a non-numeric answer started the download of a listing of two or more
C7_Witness ==
    /\ pc = "loop"
    /\ count = {}
    /\ raw # <<>> /\ ~IntParses(raw)
    /\ Len(urls) >= 2
    /\ attempted = urls

\* C8: in a batch run every queued handle is processed exactly once and in
\* queue order, one after the other, whichever listings raise or return
\* nothing; such a listing yields the empty sequence and the run goes on.
C8_EveryHandleProcessed ==
    caller = "main_menu" =>
        /\ pc \in {"batch", "ask", "loop"}
              => /\ batch = usernames
                 /\ bi >= 1 /\ bi <= Len(batch)
                 /\ Users(processed) = SubSeq(batch, 1, bi - 1)
        /\ (pc = "menu" /\ choice = <<"3">> /\ usernames # <<>>)
              => Users(processed) = usernames
        /\ \A i \in 1..Len(processed) :
              processed[i].kind \in {"raise", "none"} => ~processed[i].found

\* the first listing raised, the second returned nothing, and the batch ended
\* with both handles processed
C8_Witness ==
    /\ pc = "menu"
    /\ choice = <<"3">>
    /\ Len(usernames) = 2
    /\ Len(processed) = 2
    /\ processed[1].kind = "raise"
    /\ processed[2].kind = "none"

\* C9: whatever is chosen and whatever the fetch layer raises, the session
\* stays at or returns to the menu; it ends only when the operator chooses 0
\* or interrupts the process.
C9_SessionEndsOnlyOnExit ==
    caller = "main_menu" =>
        \/ pc \in {"menu", "batch", "ask", "loop"}
        \/ pc = "exited" /\ choice = <<"0">>
        \/ pc = "stopped"

\* the absolute url an entry carries in url or webpage_url, if any
CarriedUrl(e) ==
    IF StartsWithHttp(e.fields.url) THEN e.fields.url
    ELSE IF StartsWithHttp(e.fields.webpage_url) THEN e.fields.webpage_url
    ELSE <<>>

\* C10: for a flat listing in which every entry is usable, an entry that
\* carries an absolute url is identified by that url even when it also
\* carries a bare id, and every identifier returned is an absolute url.
C10_PrefersAbsoluteUrl ==
    (/\ pc = "returned"
     /\ info.kind = "dict"
     /\ info.entries # <<>>
     /\ Len(urls) = Len(info.entries))
        => \A j \in 1..Len(urls) :
              /\ StartsWithHttp(urls[j])
              /\ CarriedUrl(info.entries[j]) # <<>>
                    => urls[j] = CarriedUrl(info.entries[j])

====
